---- MODULE Spec2Model ----
(***************************************************************************)
(* Staged loading, session cache and merge protocol of the Wolfee          *)
(* dashboard client.                                                       *)
(*                                                                         *)
(* The repository carries two builds of the main script:                   *)
(*   "part_002": init / fetchQuickBatch / fetchFullBatchInBackground /     *)
(*               processData  (src/unnamed/part_002, with src/js/api.js)   *)
(*   "part_003": init / fetchQuickBatch (mock fallback) / fetchFullBatch / *)
(*               processData  (src/unnamed/part_003)                       *)
(* A page runs exactly one of them; `build` is fixed in Init.              *)
(*                                                                         *)
(* Execution is single threaded: every action below is one task of the     *)
(* event loop, run from one suspension point (await / timer / user event)  *)
(* to the next.                                                            *)
(*                                                                         *)
(* sessionStorage values are JSON texts of values that were themselves     *)
(* produced by response.json() (finite numbers, strings, arrays), for      *)
(* which JSON.parse(JSON.stringify(v)) gives v back; the snapshot is       *)
(* therefore kept as the value.  The timestamp is kept as its decimal      *)
(* digit string (toString / parseInt).                                     *)
(***************************************************************************)
EXTENDS Integers, Sequences, FiniteSets

VARIABLES
    build,          \* which main script the page runs
    now,            \* Date.now(), milliseconds
    inits,          \* number of init() calls made in this tab session
    mdata,          \* sessionStorage 'wolfee_market_data'
    ctime,          \* sessionStorage 'wolfee_cache_time' (digit string)
    allStocks,      \* script-scope `let allStocks` (read by search)
    winAllStocks,   \* window.allStocks (read by filters, merge, portfolio)
    isGlobalMode,   \* #region-toggle .checked
    grid,           \* #stock-grid: message paragraph and rendered cards
    loaderHidden,   \* #loader has class 'hidden'
    hideTimers,     \* pending setTimeout(() => loader.classList.add('hidden'))
    runs,           \* the init() calls of the current page, in call order
    newStocks,      \* delta computed by the last fetchFullBatchInBackground
    mergeHist,      \* history: "none" since the last processData, "merged"
                    \* after a merge, "remerged" after a merge of the snapshot
                    \* that the merge before it had merged
    cacheWrittenAt, \* history: Date.now() of the last write of the timestamp
    quickReceived,  \* history: body parsed by the quick request that ended in
                    \* the last step (absent after any other step)
    event,          \* history: "refresh" when the last step was a call of
                    \* refreshMarket, "stale" when it ended a full request
                    \* that had been in flight during a refresh,
                    \* "stockLoaded" / "stockFailed" when it settled a call
                    \* of fetchStockData, else "none"
    portfolio,      \* sessionStorage 'wolfee_portfolio'
    aiInsight,      \* sessionStorage 'wolfee_ai_insight'
    opportunities,  \* sessionStorage 'wolfee_opportunities'
    insightReqs,    \* pending fetch(`${API_URL}/insight`) of loadAIInsight
    oppsReqs,       \* pending fetch(`${API_URL}/opportunities`)
    aiText,         \* #ai-text
    oppsList,       \* the list last given to renderOpportunities
    currentSymbol,  \* `currentSymbol`, set by openModal
    filters,        \* values of the seven filter inputs
    searchResults,  \* #search-results: hidden or not, and its items
    exportBtn,      \* content of the export card of one period
    exportCalls,    \* the triggerExport calls that issued a request
    exportModal,    \* #export-modal is shown
    portfolioTab,   \* #portfolio-view is shown
    stockReqs       \* part_000: the fetchStockData requests in flight

\* sessionStorage keys other than the snapshot and its timestamp
storeVars == <<portfolio, aiInsight, opportunities>>

\* the insight and opportunities loaders
loaderVars == <<insightReqs, oppsReqs, aiText, oppsList>>

\* modal, filter inputs and search results
pageVars == <<currentSymbol, filters, searchResults>>

\* export card and modal, tab, per-symbol requests
exportVars == <<exportBtn, exportCalls, exportModal, portfolioTab>>

vars == <<build, now, inits, mdata, ctime, allStocks, winAllStocks,
          isGlobalMode, grid, loaderHidden, hideTimers, runs, newStocks,
          mergeHist, cacheWrittenAt, quickReceived, event, storeVars,
          loaderVars, pageVars, exportVars, stockReqs>>

----------------------------------------------------------------------------
(* Bounds *)

MaxLen == 2         \* longest stocks list a response carries
MaxInits == 2       \* init() calls per tab session (page inits + refreshes)
MaxTicks == 2       \* clock ticks
MockLen == 1        \* leading entries of the mock list that are modelled
MaxSet == 2         \* filter inputs that hold a value at the same time
MaxCalls == 2       \* triggerExport calls that issue a request, per page

(* Program constants *)

CacheTTL == 300000
QuickTimeout002 == 120000
QuickTimeout003 == 90000

TickMs == CacheTTL \div 2

\* triggerExport: the delays of the two setTimeout calls that restore the
\* export card, after a download and after a failure.
ExportSuccessDelay == 1500
ExportFailureDelay == 2000

\* The step in which the time of the export timers is counted.
ExportTickMs == ExportFailureDelay - ExportSuccessDelay

----------------------------------------------------------------------------
(* Values *)

\* An optional value is a sequence of length 0 (none) or 1 (the value).
Absent == <<>>              \* sessionStorage.getItem(...) === null
Item(v) == <<v>>            \* a stored item, read back with [1]
Undefined == <<>>           \* window.allStocks before the first processData
Defined(list) == <<list>>   \* window.allStocks once assigned

Builds == {"part_002", "part_003"}

SymAAA == <<"A", "A", "A", ".", "I", "S">>
SymBBB == <<"B", "B", "B">>
SymAKBNK == <<"A", "K", "B", "N", "K", ".", "I", "S">>
SymGARAN == <<"G", "A", "R", "A", "N", ".", "I", "S">>
SymHALKB == <<"H", "A", "L", "K", "B", ".", "I", "S">>
SymBANKX == <<"B", "A", "N", "K", "X">>

Rec(sym, p) == [symbol |-> sym, price |-> p]

Records == {Rec(SymAAA, 10), Rec(SymAAA, 11), Rec(SymBBB, 5)}

UniqueSymbols(s) ==
    \A i, j \in 1..Len(s) : s[i].symbol = s[j].symbol => i = j

\* The server lists each symbol once, the domestic ones first.
ServerOrder(s) ==
    /\ UniqueSymbols(s)
    /\ \A i, j \in 1..Len(s) :
           (i < j /\ s[i].symbol = SymBBB) => s[j].symbol = SymBBB

\* Stocks lists the server can send.
Snapshots ==
    {s \in UNION {[1..k -> Records] : k \in 0..MaxLen} : ServerOrder(s)}

\* A parsed response body: an object with a stocks array, or an object
\* without one (for instance an error object).
Body(s) == [hasStocks |-> TRUE, stocks |-> s]
NoStocksBody == [hasStocks |-> FALSE, stocks |-> <<>>]
Bodies == {Body(s) : s \in Snapshots} \cup {NoStocksBody}

\* The records of a list, as a set.
RecordsOf(list) == {list[k] : k \in 1..Len(list)}

----------------------------------------------------------------------------
(* String helpers *)

EndsWith(s, suf) ==
    /\ Len(s) >= Len(suf)
    /\ SubSeq(s, Len(s) - Len(suf) + 1, Len(s)) = suf

RECURSIVE toString(_)
toString(n) ==
    IF n < 10 THEN <<n>> ELSE Append(toString(n \div 10), n % 10)

RECURSIVE parseInt(_)
parseInt(s) ==
    IF Len(s) = 0 THEN 0
    ELSE 10 * parseInt(SubSeq(s, 1, Len(s) - 1)) + s[Len(s)]

----------------------------------------------------------------------------
(* Pure parts of the handlers *)

\* !stock.symbol.endsWith('.IS')
IsStockGlobal(stock) == ~EndsWith(stock.symbol, <<".", "I", "S">>)

\* Mutant: the first record of the list is lost.
StocksOrEmptyTail(data) ==
    IF data.hasStocks /\ data.stocks # <<>> THEN Tail(data.stocks) ELSE <<>>

\* data.stocks || []
StocksOrEmpty(data) == IF data.hasStocks THEN data.stocks ELSE <<>>

\* processData: the region partition that is rendered
DisplayStocks(stocks, globalMode) ==
    SelectSeq(stocks, LAMBDA stock : IsStockGlobal(stock) = globalMode)

\* processData: the grid after clearing it and rendering the partition
ProcessedGrid(stocks, globalMode) ==
    IF DisplayStocks(stocks, globalMode) = <<>>
    THEN [msg |-> "loading", cards |-> <<>>]
    ELSE [msg |-> "none", cards |-> DisplayStocks(stocks, globalMode)]

\* init's catch block: stock-grid.innerHTML = '<p style="color: red...'
ErrorGrid == [msg |-> "error", cards |-> <<>>]

\* Mutant: an entry that is exactly CacheTTL old still counts as fresh.
CacheFreshInclusive(cachedData, cacheTime, t) ==
    /\ cachedData # Absent
    /\ cacheTime # Absent
    /\ t - parseInt(cacheTime[1]) <= CacheTTL

\* init: cachedData && cacheTime && (now - parseInt(cacheTime)) < 300000
CacheFresh(cachedData, cacheTime, t) ==
    /\ cachedData # Absent
    /\ cacheTime # Absent
    /\ t - parseInt(cacheTime[1]) < CacheTTL

\* Mutant: the incoming list is taken as the delta without the symbol test.
NewStocksOfAll(currentStocks, dataStocks) == dataStocks

\* fetchFullBatchInBackground: data.stocks.filter(newStock =>
\*     !currentStocks.some(existing => existing.symbol === newStock.symbol))
NewStocksOf(currentStocks, dataStocks) ==
    SelectSeq(dataStocks, LAMBDA newStock :
        ~\E k \in 1..Len(currentStocks) :
            currentStocks[k].symbol = newStock.symbol)

\* fetchFullBatchInBackground: window.allStocks || []
CurrentStocks(w) == IF w = Undefined THEN <<>> ELSE w[1]

\* Mutant: every incoming record is appended, known symbol or not.
MergedStocksAll(currentStocks, dataStocks) == currentStocks \o dataStocks

\* Mutant: the new stocks are put in front of the existing ones.
MergedStocksPrepend(currentStocks, dataStocks) ==
    NewStocksOf(currentStocks, dataStocks) \o currentStocks

\* fetchFullBatchInBackground: [...currentStocks, ...newStocks]
MergedStocks(currentStocks, dataStocks) ==
    currentStocks \o NewStocksOf(currentStocks, dataStocks)

\* fetchFullBatchInBackground: cards appended for the new stocks of the
\* selected region
MergedGrid(g, delta, globalMode) ==
    [g EXCEPT !.cards = @ \o DisplayStocks(delta, globalMode)]

\* setTimeout(() => controller.abort(), ...) of the running build
QuickTimeoutMs(b) == IF b = "part_002" THEN QuickTimeout002 ELSE QuickTimeout003

\* generateMockStocks: the leading entries of the fixed list; the price is
\* basePrice * (1 + random in [-5%, +5%]), two values of the range are kept.
MockBase == <<[symbol |-> SymAKBNK, prices |-> {50, 55}],
              [symbol |-> SymGARAN, prices |-> {105, 115}],
              [symbol |-> SymHALKB, prices |-> {17, 18}]>>

MockCount == IF MockLen < Len(MockBase) THEN MockLen ELSE Len(MockBase)

generateMockStocks ==
    {m \in [1..MockCount -> UNION {{Rec(MockBase[k].symbol, p) :
                                        p \in MockBase[k].prices} :
                                   k \in 1..MockCount}] :
        \A k \in 1..MockCount : m[k].symbol = MockBase[k].symbol}

\* Mutant: init issues the full request together with the quick request.
NewRunBothStages(path, quick, b) ==
    [path |-> path, quick |-> quick,
     full |-> IF quick = "inflight" THEN "inflight" ELSE "none",
     budget |-> IF quick = "inflight" THEN QuickTimeoutMs(b) ELSE 0,
     outlived |-> FALSE]

\* A call of init: the path it took, the state of its quick and full
\* requests, the time left on fetchQuickBatch's abort timer (0 when the
\* timer is due, cleared, or was never set), and, as history, whether the
\* pending full request was already in flight when a refresh was made.
NewRun(path, quick, b) ==
    [path |-> path, quick |-> quick, full |-> "none",
     budget |-> IF quick = "inflight" THEN QuickTimeoutMs(b) ELSE 0,
     outlived |-> FALSE]

\* Mutant: refreshMarket ends the full requests that are in flight.
OutlivedCancelled(rs) ==
    [i \in 1..Len(rs) |->
        [rs[i] EXCEPT !.full = IF @ = "inflight" THEN "failed" ELSE @]]

\* History: the full requests in flight when refreshMarket is called.
Outlived(rs) ==
    [i \in 1..Len(rs) |->
        [rs[i] EXCEPT !.outlived = @ \/ rs[i].full = "inflight"]]

\* The abort timers after ms milliseconds have passed.
Elapse(rs, ms) ==
    [i \in 1..Len(rs) |->
        [rs[i] EXCEPT !.budget = IF @ > ms THEN @ - ms ELSE 0]]

\* The filter inputs as the page loads them: all empty.
EmptyField == [kind |-> "empty", v |-> 0]

NoFilters ==
    [priceMin |-> EmptyField, priceMax |-> EmptyField,
     rsiMin |-> EmptyField, rsiMax |-> EmptyField,
     changeMin |-> EmptyField, changeMax |-> EmptyField,
     volMin |-> EmptyField]

\* The search box as the page loads it: #search-input empty, #search-results
\* hidden, without items and without the "No results found" line.
NoResults == [input |-> <<>>, hidden |-> TRUE, items |-> <<>>, none |-> FALSE]

\* `if (cachedInsight)`, `if (cachedOpps)`: null and '' are falsy.
Truthy(item) == item # Absent /\ item[1] # <<>>

\* data.insight of an /insight response, as a sequence of characters.
InsightTexts == {<<"u", "p">>, <<"u", "p", "\n", "o", "k">>}

\* data.insight.replace(/\n/g, '<br>')
NlToBr(text) ==
    [k \in 1..Len(text) |-> IF text[k] = "\n" THEN "<br>" ELSE text[k]]

\* innerText = "AI Protocol Offline."
OfflineText == <<"AI Protocol Offline.">>

\* JSON.stringify(data.opportunities): the stored text is never empty.
OppsText(list) == <<"[">> \o list \o <<"]">>

\* JSON.parse of a text written by OppsText
OppsParse(text) == SubSeq(text, 2, Len(text) - 1)

\* data.opportunities of an /opportunities response
OppsLists == {<<>>, <<"AAA.IS">>}

\* loadAIInsight up to its first suspension point
loadAIInsight(cached, prevReqs, prevText) ==
    IF Truthy(cached)
    THEN /\ aiText' = cached[1]
         /\ insightReqs' = prevReqs
    ELSE /\ aiText' = prevText
         /\ insightReqs' = prevReqs + 1

\* loadOpportunities up to its first suspension point
loadOpportunities(cached, prevReqs, prevList) ==
    IF Truthy(cached)
    THEN /\ oppsList' = OppsParse(cached[1])
         /\ oppsReqs' = prevReqs
    ELSE /\ oppsList' = prevList
         /\ oppsReqs' = prevReqs + 1

----------------------------------------------------------------------------
(* State *)

BlankGrid == [msg |-> "none", cards |-> <<>>]

\* How a stage that did not succeed is recorded in its run: "failed" (request
\* rejected, non-success status, unparsable body, or a parsed body without a
\* stocks list), "timeout" (aborted).
QuickFailed == {"failed", "timeout"}
FullFailed == {"failed"}

Init ==
    /\ build \in Builds
    /\ now = 0
    /\ inits = 0
    /\ mdata = Absent
    /\ ctime = Absent
    /\ allStocks = <<>>
    /\ winAllStocks = Undefined
    /\ isGlobalMode = FALSE
    /\ grid = BlankGrid
    /\ loaderHidden = FALSE
    /\ hideTimers = 0
    /\ runs = <<>>
    /\ newStocks = <<>>
    /\ mergeHist = "none"
    /\ cacheWrittenAt = 0
    /\ quickReceived = Absent
    /\ event = "none"
    /\ portfolio = Absent
    /\ aiInsight = Absent
    /\ opportunities = Absent
    /\ insightReqs = 0
    /\ oppsReqs = 0
    /\ aiText = <<>>
    /\ oppsList = <<>>
    /\ currentSymbol = Absent
    /\ filters = NoFilters
    /\ searchResults = NoResults
    /\ exportBtn = "original"
    /\ exportCalls = <<>>
    /\ exportModal = FALSE
    /\ portfolioTab = FALSE
    /\ stockReqs = {}

----------------------------------------------------------------------------
(* init(): from the call to its first suspension point.  cachedData is what *)
(* sessionStorage holds when init reads it; the prev* arguments are the     *)
(* in-memory state init starts from (prevLoad: the loaders' part of it).    *)

init(cachedData, prevRuns, prevAll, prevWin, prevGrid, prevHist, prevLoad) ==
    IF CacheFresh(cachedData, ctime, now)
    THEN \* processData(JSON.parse(cachedData)); loader hidden; return
         /\ allStocks' = StocksOrEmpty(cachedData[1])
         /\ winAllStocks' = Defined(StocksOrEmpty(cachedData[1]))
         /\ grid' = ProcessedGrid(StocksOrEmpty(cachedData[1]), isGlobalMode')
         /\ loaderHidden' = TRUE
         /\ mergeHist' = "none"
         /\ newStocks' = <<>>
         /\ runs' = Append(prevRuns, NewRun("cache", "none", build))
         /\ loadAIInsight(aiInsight', prevLoad[1], prevLoad[3])
         /\ loadOpportunities(opportunities', prevLoad[2], prevLoad[4])
    ELSE \* await fetchQuickBatch(): the quick request is in flight
         /\ allStocks' = prevAll
         /\ winAllStocks' = prevWin
         /\ grid' = prevGrid
         /\ loaderHidden' = FALSE
         /\ mergeHist' = prevHist
         /\ newStocks' = IF prevHist = "none" THEN <<>> ELSE newStocks
         /\ runs' = Append(prevRuns, NewRun("network", "inflight", build))
         /\ insightReqs' = prevLoad[1]
         /\ oppsReqs' = prevLoad[2]
         /\ aiText' = prevLoad[3]
         /\ oppsList' = prevLoad[4]

\* The browser inits the page: the script's top level runs (let allStocks =
\* [], window.allStocks not yet set) and ends with init().  Requests and
\* timers of the previous page are gone; sessionStorage is kept.
PageLoad ==
    /\ inits < MaxInits
    /\ inits' = inits + 1
    /\ isGlobalMode' = FALSE
    /\ hideTimers' = 0
    /\ UNCHANGED <<build, now, mdata, ctime, cacheWrittenAt, storeVars>>
    /\ init(mdata, <<>>, <<>>, Undefined, BlankGrid, "none",
            <<0, 0, <<>>, <<>> >>)
    /\ quickReceived' = Absent
    /\ event' = "none"
    /\ currentSymbol' = Absent
    /\ filters' = NoFilters
    /\ searchResults' = NoResults
    /\ exportBtn' = "original"
    /\ exportCalls' = <<>>
    /\ exportModal' = FALSE
    /\ portfolioTab' = FALSE
    /\ stockReqs' = {}

\* window.refreshMarket (src/js/api.js): removes the snapshot, the insight
\* and the opportunities (the timestamp key is not removed), shows the
\* loader, calls init().
refreshMarket ==
    /\ runs # <<>>
    /\ inits < MaxInits
    /\ inits' = inits + 1
    /\ mdata' = Absent
    /\ aiInsight' = Absent
    /\ opportunities' = Absent
    /\ quickReceived' = Absent
    /\ event' = "refresh"
    /\ UNCHANGED <<build, now, ctime, isGlobalMode, hideTimers,
                   cacheWrittenAt, portfolio, pageVars, exportVars,
                   stockReqs>>
    /\ init(Absent, Outlived(runs), allStocks, winAllStocks, grid, mergeHist,
            loaderVars)

\* Date.now() advances by one tick.  The loader timers (1 s, 1.5 s) are due
\* long before a tick has passed, so they have fired by then.
Tick ==
    /\ now < MaxTicks * TickMs
    /\ hideTimers = 0
    /\ now' = now + TickMs
    /\ runs' = Elapse(runs, TickMs)
    /\ quickReceived' = Absent
    /\ event' = "none"
    /\ UNCHANGED <<storeVars, loaderVars, pageVars, exportVars, stockReqs>>
    /\ UNCHANGED <<build, inits, mdata, ctime, allStocks, winAllStocks,
                   isGlobalMode, grid, loaderHidden, hideTimers, newStocks,
                   mergeHist, cacheWrittenAt>>

\* setTimeout(() => loader.classList.add('hidden'), ...) fires.
HideLoader ==
    /\ hideTimers > 0
    /\ hideTimers' = hideTimers - 1
    /\ loaderHidden' = TRUE
    /\ quickReceived' = Absent
    /\ event' = "none"
    /\ UNCHANGED <<storeVars, loaderVars, pageVars, exportVars, stockReqs>>
    /\ UNCHANGED <<build, now, inits, mdata, ctime, allStocks, winAllStocks,
                   isGlobalMode, grid, runs, newStocks, mergeHist,
                   cacheWrittenAt>>

----------------------------------------------------------------------------
(* Quick stage *)

QuickInFlight(i) ==
    /\ i \in 1..Len(runs)
    /\ runs[i].quick = "inflight"

\* Mutant: init's catch block leaves the loader visible.
QuickThrowsLoaderShown(i, kind) ==
    /\ runs' = [runs EXCEPT ![i].quick = kind, ![i].budget = 0]
    /\ grid' = ErrorGrid
    /\ UNCHANGED loaderHidden

\* Mutant: init goes on to the full stage although the quick stage threw.
QuickThrowsThenFull(i, kind) ==
    /\ runs' = [runs EXCEPT ![i].quick = kind, ![i].budget = 0,
                            ![i].full = "inflight"]
    /\ grid' = ErrorGrid
    /\ loaderHidden' = TRUE

\* fetchQuickBatch throws (catch: rethrow; finally: clearTimeout) and init's
\* catch block shows the error message and hides the loader.
QuickThrows(i, kind) ==
    /\ runs' = [runs EXCEPT ![i].quick = kind, ![i].budget = 0]
    /\ grid' = ErrorGrid
    /\ loaderHidden' = TRUE

\* The request is rejected, answers with a non-success status, or its body
\* does not parse, within the time budget.
QuickBatchFails ==
    \E i \in 1..Len(runs) :
        /\ QuickInFlight(i)
        /\ runs[i].budget > 0
        /\ QuickThrows(i, "failed")
        /\ quickReceived' = Absent
        /\ event' = "none"
        /\ UNCHANGED <<storeVars, loaderVars, pageVars, exportVars, stockReqs>>
        /\ UNCHANGED <<build, now, inits, mdata, ctime, allStocks,
                       winAllStocks, isGlobalMode, hideTimers, newStocks,
                       mergeHist, cacheWrittenAt>>

\* The abort timer fires: controller.abort() rejects the pending fetch.
QuickBatchTimeout ==
    \E i \in 1..Len(runs) :
        /\ QuickInFlight(i)
        /\ runs[i].budget = 0
        /\ QuickThrows(i, "timeout")
        /\ quickReceived' = Absent
        /\ event' = "none"
        /\ UNCHANGED <<storeVars, loaderVars, pageVars, exportVars, stockReqs>>
        /\ UNCHANGED <<build, now, inits, mdata, ctime, allStocks,
                       winAllStocks, isGlobalMode, hideTimers, newStocks,
                       mergeHist, cacheWrittenAt>>

\* part_002 fetchQuickBatch with a parsed body, then the rest of init's try
\* block: the cache is written, processData runs, and
\* console.log(data.stocks.length) throws when the body has no stocks list;
\* otherwise the loader timer is set, the full request issued and the
\* insight and opportunities loaders called.
fetchQuickBatch(i, data) ==
    /\ mdata' = Item(data)
    /\ ctime' = Item(toString(now))
    /\ cacheWrittenAt' = now
    /\ allStocks' = StocksOrEmpty(data)
    /\ winAllStocks' = Defined(StocksOrEmpty(data))
    /\ mergeHist' = "none"
    /\ newStocks' = <<>>
    /\ IF data.hasStocks
       THEN /\ grid' = ProcessedGrid(StocksOrEmpty(data), isGlobalMode)
            /\ runs' = [runs EXCEPT ![i].quick = "ok", ![i].full = "inflight",
                                 ![i].budget = 0]
            /\ hideTimers' = hideTimers + 1
            /\ loadAIInsight(aiInsight, insightReqs, aiText)
            /\ loadOpportunities(opportunities, oppsReqs, oppsList)
            /\ UNCHANGED loaderHidden
       ELSE /\ QuickThrows(i, "failed")
            /\ UNCHANGED <<hideTimers, loaderVars>>
    /\ quickReceived' = Item(data)
    /\ event' = "none"
    /\ UNCHANGED <<storeVars, pageVars, exportVars, stockReqs>>
    /\ UNCHANGED <<build, now, inits, isGlobalMode>>

QuickBatchLoaded ==
    \E i \in 1..Len(runs), data \in Bodies :
        /\ build = "part_002"
        /\ QuickInFlight(i)
        /\ runs[i].budget > 0
        /\ fetchQuickBatch(i, data)

\* part_003 fetchQuickBatch with a parsed body: the body is stored and at
\* once overwritten by the mock fallback, which is what processData gets.
fetchQuickBatchMock(i, data, mockData) ==
    /\ mdata' = Item(Body(mockData))
    /\ ctime' = Item(toString(now))
    /\ cacheWrittenAt' = now
    /\ allStocks' = StocksOrEmpty(Body(mockData))
    /\ winAllStocks' = Defined(StocksOrEmpty(Body(mockData)))
    /\ mergeHist' = "none"
    /\ newStocks' = <<>>
    /\ grid' = ProcessedGrid(StocksOrEmpty(Body(mockData)), isGlobalMode)
    /\ runs' = [runs EXCEPT ![i].quick = "ok", ![i].full = "inflight",
                                 ![i].budget = 0]
    /\ hideTimers' = hideTimers + 1
    /\ loadAIInsight(aiInsight, insightReqs, aiText)
    /\ loadOpportunities(opportunities, oppsReqs, oppsList)
    /\ quickReceived' = Item(data)
    /\ event' = "none"
    /\ UNCHANGED <<storeVars, pageVars, exportVars, stockReqs>>
    /\ UNCHANGED <<build, now, inits, isGlobalMode, loaderHidden>>

QuickBatchLoadedMock ==
    \E i \in 1..Len(runs), data \in Bodies, mockData \in generateMockStocks :
        /\ build = "part_003"
        /\ QuickInFlight(i)
        /\ runs[i].budget > 0
        /\ fetchQuickBatchMock(i, data, mockData)

----------------------------------------------------------------------------
(* Full stage *)

FullInFlight(i) ==
    /\ i \in 1..Len(runs)
    /\ runs[i].full = "inflight"

\* part_002 fetchFullBatchInBackground: fetch rejected or json() throws
\* (catch: console.error), or !response.ok (return).
FullBatchInBackgroundFails ==
    \E i \in 1..Len(runs) :
        /\ build = "part_002"
        /\ FullInFlight(i)
        /\ runs' = [runs EXCEPT ![i].full = "failed", ![i].outlived = FALSE]
        /\ quickReceived' = Absent
        /\ event' = IF runs[i].outlived THEN "stale" ELSE "none"
        /\ UNCHANGED <<storeVars, loaderVars, pageVars, exportVars, stockReqs>>
        /\ UNCHANGED <<build, now, inits, mdata, ctime, allStocks,
                       winAllStocks, isGlobalMode, grid, loaderHidden,
                       hideTimers, newStocks, mergeHist, cacheWrittenAt>>

\* Mutant: the full stage writes the snapshot and leaves the timestamp.
fetchFullBatchInBackgroundNoStamp(i, data) ==
    /\ mdata' = Item(data)
    /\ ctime' = ctime
    /\ cacheWrittenAt' = now
    /\ IF data.hasStocks
       THEN /\ newStocks' = NewStocksOf(CurrentStocks(winAllStocks), data.stocks)
            /\ mergeHist' = IF mergeHist # "none" /\ mdata = Item(data)
                             THEN "remerged" ELSE "merged"
            /\ runs' = [runs EXCEPT ![i].full = "done", ![i].outlived = FALSE]
            /\ IF newStocks' # <<>>
               THEN /\ winAllStocks' = Defined(
                          MergedStocks(CurrentStocks(winAllStocks), data.stocks))
                    /\ grid' = MergedGrid(grid, newStocks', isGlobalMode)
               ELSE UNCHANGED <<winAllStocks, grid>>
       ELSE /\ runs' = [runs EXCEPT ![i].full = "failed", ![i].outlived = FALSE]
            /\ UNCHANGED <<winAllStocks, grid, newStocks, mergeHist>>
    /\ quickReceived' = Absent
    /\ event' = IF runs[i].outlived THEN "stale" ELSE "none"
    /\ UNCHANGED <<storeVars, loaderVars, pageVars, exportVars, stockReqs>>
    /\ UNCHANGED <<build, now, inits, allStocks, isGlobalMode, loaderHidden,
                   hideTimers>>

\* part_002 fetchFullBatchInBackground with a parsed body: the cache is
\* written first; data.stocks.filter throws when the body has no stocks
\* list (caught, logged); otherwise the new stocks are appended to
\* window.allStocks and the ones of the selected region get a card.
fetchFullBatchInBackground(i, data) ==
    /\ mdata' = Item(data)
    /\ ctime' = Item(toString(now))
    /\ cacheWrittenAt' = now
    /\ IF data.hasStocks
       THEN /\ newStocks' = NewStocksOf(CurrentStocks(winAllStocks), data.stocks)
            /\ mergeHist' = IF mergeHist # "none" /\ mdata = Item(data)
                             THEN "remerged" ELSE "merged"
            /\ runs' = [runs EXCEPT ![i].full = "done", ![i].outlived = FALSE]
            /\ IF newStocks' # <<>>
               THEN /\ winAllStocks' = Defined(
                          MergedStocks(CurrentStocks(winAllStocks), data.stocks))
                    /\ grid' = MergedGrid(grid, newStocks', isGlobalMode)
               ELSE UNCHANGED <<winAllStocks, grid>>
       ELSE /\ runs' = [runs EXCEPT ![i].full = "failed", ![i].outlived = FALSE]
            /\ UNCHANGED <<winAllStocks, grid, newStocks, mergeHist>>
    /\ quickReceived' = Absent
    /\ event' = IF runs[i].outlived THEN "stale" ELSE "none"
    /\ UNCHANGED <<storeVars, loaderVars, pageVars, exportVars, stockReqs>>
    /\ UNCHANGED <<build, now, inits, allStocks, isGlobalMode, loaderHidden,
                   hideTimers>>

FullBatchInBackgroundLoaded ==
    \E i \in 1..Len(runs), data \in Bodies :
        /\ build = "part_002"
        /\ FullInFlight(i)
        /\ fetchFullBatchInBackground(i, data)

\* part_003 fetchFullBatch: fetch rejected, !response.ok (throw) or json()
\* throws; all caught with console.warn.
FullBatchFails ==
    \E i \in 1..Len(runs) :
        /\ build = "part_003"
        /\ FullInFlight(i)
        /\ runs' = [runs EXCEPT ![i].full = "failed", ![i].outlived = FALSE]
        /\ quickReceived' = Absent
        /\ event' = IF runs[i].outlived THEN "stale" ELSE "none"
        /\ UNCHANGED <<storeVars, loaderVars, pageVars, exportVars, stockReqs>>
        /\ UNCHANGED <<build, now, inits, mdata, ctime, allStocks,
                       winAllStocks, isGlobalMode, grid, loaderHidden,
                       hideTimers, newStocks, mergeHist, cacheWrittenAt>>

\* part_003 fetchFullBatch with a parsed body: fullList = data.stocks || [];
\* only a non-empty list is cached and handed to processData.
fetchFullBatch(i, data) ==
    IF Len(StocksOrEmpty(data)) > 0
    THEN /\ mdata' = Item(data)
         /\ ctime' = Item(toString(now))
         /\ cacheWrittenAt' = now
         /\ allStocks' = StocksOrEmpty(data)
         /\ winAllStocks' = Defined(StocksOrEmpty(data))
         /\ grid' = ProcessedGrid(StocksOrEmpty(data), isGlobalMode)
         /\ mergeHist' = "none"
         /\ newStocks' = <<>>
         /\ runs' = [runs EXCEPT ![i].full = "done", ![i].outlived = FALSE]
         /\ quickReceived' = Absent
         /\ event' = IF runs[i].outlived THEN "stale" ELSE "none"
         /\ UNCHANGED <<storeVars, loaderVars, pageVars, exportVars, stockReqs>>
         /\ UNCHANGED <<build, now, inits, isGlobalMode, loaderHidden,
                        hideTimers>>
    ELSE /\ runs' = [runs EXCEPT ![i].full =
                        IF data.hasStocks THEN "done" ELSE "failed",
                               ![i].outlived = FALSE]
         /\ quickReceived' = Absent
         /\ event' = IF runs[i].outlived THEN "stale" ELSE "none"
         /\ UNCHANGED <<storeVars, loaderVars, pageVars, exportVars, stockReqs>>
         /\ UNCHANGED <<build, now, inits, mdata, ctime, allStocks,
                        winAllStocks, isGlobalMode, grid, loaderHidden,
                        hideTimers, newStocks, mergeHist, cacheWrittenAt>>

FullBatchLoaded ==
    \E i \in 1..Len(runs), data \in Bodies :
        /\ build = "part_003"
        /\ FullInFlight(i)
        /\ fetchFullBatch(i, data)

----------------------------------------------------------------------------
(* Insight and opportunities loaders (src/js/api.js): the answers *)

\* everything the loaders, the modal and the portfolio leave alone
pipelineVars == <<build, now, inits, mdata, ctime, allStocks, winAllStocks,
                  isGlobalMode, grid, loaderHidden, hideTimers, runs,
                  newStocks, mergeHist, cacheWrittenAt>>

\* loadAIInsight after the fetch: the text is shown and stored.
InsightLoaded ==
    \E text \in InsightTexts :
        /\ insightReqs > 0
        /\ insightReqs' = insightReqs - 1
        /\ aiText' = NlToBr(text)
        /\ aiInsight' = Item(NlToBr(text))
        /\ quickReceived' = Absent
        /\ event' = "none"
        /\ UNCHANGED <<pipelineVars, portfolio, opportunities, oppsReqs,
                       oppsList, pageVars, exportVars, stockReqs>>

\* loadAIInsight's catch block: fetch rejected, body unparsable or without
\* an insight string.
InsightFails ==
    /\ insightReqs > 0
    /\ insightReqs' = insightReqs - 1
    /\ aiText' = OfflineText
    /\ quickReceived' = Absent
    /\ event' = "none"
    /\ UNCHANGED <<pipelineVars, storeVars, oppsReqs, oppsList, pageVars,
                   exportVars, stockReqs>>

\* loadOpportunities after the fetch: the list is rendered and stored.
OppsLoaded ==
    \E list \in OppsLists :
        /\ oppsReqs > 0
        /\ oppsReqs' = oppsReqs - 1
        /\ oppsList' = list
        /\ opportunities' = Item(OppsText(list))
        /\ quickReceived' = Absent
        /\ event' = "none"
        /\ UNCHANGED <<pipelineVars, portfolio, aiInsight, insightReqs,
                       aiText, pageVars, exportVars, stockReqs>>

\* loadOpportunities' catch block (console.error).
OppsFails ==
    /\ oppsReqs > 0
    /\ oppsReqs' = oppsReqs - 1
    /\ quickReceived' = Absent
    /\ event' = "none"
    /\ UNCHANGED <<pipelineVars, storeVars, insightReqs, aiText, oppsList,
                   pageVars, exportVars, stockReqs>>

----------------------------------------------------------------------------
(* Modal and portfolio (src/unnamed/part_001) *)

\* getPortfolio: raw ? JSON.parse(raw) : []
getPortfolio(raw) == IF raw = Absent THEN <<>> ELSE raw[1]

\* list.findIndex(s => s.symbol === sym): 0 stands for -1
findIndex(list, sym) ==
    IF \E k \in 1..Len(list) : list[k].symbol = sym
    THEN CHOOSE k \in 1..Len(list) :
             /\ list[k].symbol = sym
             /\ \A j \in 1..(k - 1) : list[j].symbol # sym
    ELSE 0

\* list.splice(k, 1)
splice(list, k) == SubSeq(list, 1, k - 1) \o SubSeq(list, k + 1, Len(list))

\* The stocks with a card in the grid or in the portfolio list: a click on
\* one calls openModal with it.
Clickable ==
    RecordsOf(grid.cards) \cup RecordsOf(getPortfolio(portfolio))

\* openModal(stock): currentSymbol = stock.symbol
openModal(stock) ==
    /\ currentSymbol' = Item(stock.symbol)
    /\ quickReceived' = Absent
    /\ event' = "none"
    /\ UNCHANGED <<pipelineVars, storeVars, loaderVars, filters,
                   searchResults, exportVars, stockReqs>>

OpenModal == \E stock \in Clickable : openModal(stock)

\* Mutant: the record is pushed whether or not the list has the symbol.
toggledAlwaysPush(list, all, sym) ==
    Append(list, all[findIndex(all, sym)])

\* togglePortfolioItem, the list it saves for a symbol that window.allStocks
\* has a record of: the symbol's entry removed, or the record pushed.
toggled(list, all, sym) ==
    IF findIndex(list, sym) > 0
    THEN splice(list, findIndex(list, sym))
    ELSE Append(list, all[findIndex(all, sym)])

\* togglePortfolioItem, what wolfee_portfolio holds after a call with sym
\* selected: as before when window.allStocks has no record of sym (the
\* function returns; it throws when window.allStocks is undefined), else
\* the toggled list.
afterToggle(raw, win, sym) ==
    IF findIndex(CurrentStocks(win), sym) = 0
    THEN raw
    ELSE Item(toggled(getPortfolio(raw), CurrentStocks(win), sym))

\* window.togglePortfolioItem: returns when no symbol is selected.
togglePortfolioItem ==
    /\ currentSymbol # Absent
    /\ portfolio' = afterToggle(portfolio, winAllStocks, currentSymbol[1])
    /\ quickReceived' = Absent
    /\ event' = "none"
    /\ UNCHANGED <<pipelineVars, aiInsight, opportunities, loaderVars,
                   pageVars, exportVars, stockReqs>>

----------------------------------------------------------------------------
(* Filters (src/unnamed/part_001) *)

\* A number, as attribute of a record, as value typed into an input, or as
\* parsed bound.
Num(n) == [kind |-> "num", v |-> n]

\* An attribute the record does not have, and one that is null.
Missing == [kind |-> "undefined", v |-> 0]
Null == [kind |-> "null", v |-> 0]

\* An input whose value parseFloat cannot read.
Unparsable == [kind |-> "text", v |-> 0]

Infinity == [kind |-> "inf", v |-> 0]
NegInfinity == [kind |-> "ninf", v |-> 0]

\* parseFloat(input.value) || dflt: NaN and 0 both give the default.
ParseBound(field, dflt) ==
    IF field.kind = "num" /\ field.v # 0 THEN Num(field.v) ELSE dflt

\* The seven constants at the head of applyFilters.
Bounds(f) ==
    [priceMin |-> ParseBound(f.priceMin, Num(0)),
     priceMax |-> ParseBound(f.priceMax, Infinity),
     rsiMin |-> ParseBound(f.rsiMin, Num(0)),
     rsiMax |-> ParseBound(f.rsiMax, Num(100)),
     changeMin |-> ParseBound(f.changeMin, NegInfinity),
     changeMax |-> ParseBound(f.changeMax, Infinity),
     volMin |-> ParseBound(f.volMin, Num(0))]

\* ToNumber of an attribute is NaN
IsNaN(a) == a.kind = "undefined"

\* ToNumber of an attribute that is not NaN: null is 0
ToNumber(a) == IF a.kind = "null" THEN 0 ELSE a.v

\* a < b and a > b of JavaScript, a an attribute and b a parsed bound:
\* false whenever a is NaN.
Less(a, b) ==
    /\ ~IsNaN(a)
    /\ \/ b.kind = "inf"
       \/ b.kind = "num" /\ ToNumber(a) < b.v

Greater(a, b) ==
    /\ ~IsNaN(a)
    /\ \/ b.kind = "ninf"
       \/ b.kind = "num" /\ ToNumber(a) > b.v

\* applyFilters step 2: the value test of one stock
PassesValues(stock, b) ==
    /\ ~(Less(stock.price, b.priceMin) \/ Greater(stock.price, b.priceMax))
    /\ ~(Less(stock.rsi, b.rsiMin) \/ Greater(stock.rsi, b.rsiMax))
    /\ ~(Less(stock.change_pct, b.changeMin)
            \/ Greater(stock.change_pct, b.changeMax))
    /\ ~Less(stock.volume, b.volMin)

\* Place of a character in the collation order of localeCompare, for the
\* characters that symbols are made of.
CharRank(c) ==
    CASE c = "." -> 0
      [] c = "A" -> 1
      [] c = "B" -> 2
      [] c = "G" -> 7
      [] c = "H" -> 8
      [] c = "I" -> 9
      [] c = "K" -> 11
      [] c = "L" -> 12
      [] c = "N" -> 14
      [] c = "R" -> 18
      [] c = "S" -> 19
      [] c = "X" -> 24

\* a.localeCompare(b) < 0, a = b, a.localeCompare(b) > 0 as -1, 0, 1
RECURSIVE localeCompare(_, _)
localeCompare(a, b) ==
    IF a = <<>> /\ b = <<>> THEN 0
    ELSE IF a = <<>> THEN -1
    ELSE IF b = <<>> THEN 1
    ELSE IF CharRank(Head(a)) < CharRank(Head(b)) THEN -1
    ELSE IF CharRank(Head(a)) > CharRank(Head(b)) THEN 1
    ELSE localeCompare(Tail(a), Tail(b))

\* Array.prototype.sort with (a, b) => a.symbol.localeCompare(b.symbol):
\* stable, by insertion.
RECURSIVE insertSorted(_, _)
insertSorted(sorted, stock) ==
    IF sorted = <<>> THEN <<stock>>
    ELSE IF localeCompare(stock.symbol, Head(sorted).symbol) < 0
         THEN <<stock>> \o sorted
         ELSE <<Head(sorted)>> \o insertSorted(Tail(sorted), stock)

RECURSIVE sort(_)
sort(list) ==
    IF list = <<>> THEN <<>>
    ELSE insertSorted(sort(SubSeq(list, 1, Len(list) - 1)), list[Len(list)])

\* Mutant: the global list is rendered in the order of the working set.
FilteredUnsorted(stocks, f, globalMode) ==
    SelectSeq(DisplayStocks(stocks, globalMode),
              LAMBDA stock : PassesValues(stock, Bounds(f)))

\* applyFilters steps 1 to 3: the list that is rendered
Filtered(stocks, f, globalMode) ==
    LET byRegion == DisplayStocks(stocks, globalMode)
        byValues == SelectSeq(byRegion,
                              LAMBDA stock : PassesValues(stock, Bounds(f)))
    IN  IF globalMode THEN sort(byValues) ELSE byValues

\* applyFilters: the grid is emptied; nothing more when window.allStocks is
\* not set; else the message or the cards of the filtered list.
FilteredGrid(w, f, globalMode) ==
    IF w = Undefined THEN BlankGrid
    ELSE IF Filtered(w[1], f, globalMode) = <<>>
         THEN [msg |-> "nomatch", cards |-> <<>>]
         ELSE [msg |-> "none", cards |-> Filtered(w[1], f, globalMode)]

\* A stock as the filter reads it.
Stock(sym, price, rsi, change, volume) ==
    [symbol |-> sym, price |-> Num(price), rsi |-> Num(rsi),
     change_pct |-> Num(change), volume |-> volume]

FilterRecords ==
    {Stock(SymAKBNK, 3, 50, 3, Num(3)),
     Stock(SymAAA, 1, 1, -1, Missing),
     Stock(SymBBB, 3, 50, -1, Null),
     Stock(SymBANKX, 1, 1, 3, Num(1))}

\* Working sets the filter is run on: each symbol once, the domestic ones
\* first.
FilterSets ==
    {s \in UNION {[1..k -> FilterRecords] : k \in 0..MaxLen} :
        /\ UniqueSymbols(s)
        /\ \A i, j \in 1..Len(s) :
               (i < j /\ IsStockGlobal(s[i])) => IsStockGlobal(s[j])}

Fields ==
    {"priceMin", "priceMax", "rsiMin", "rsiMax", "changeMin", "changeMax",
     "volMin"}

\* What an input can hold when it is not empty.
FieldValues == {Unparsable, Num(-1), Num(0), Num(2)}

\* What the user can have typed into the seven inputs.
FilterInputs ==
    {f \in [Fields -> FieldValues \cup {EmptyField}] :
        Cardinality({k \in Fields : f[k] # EmptyField}) <= MaxSet}

\* The page of build part_002 once the quick stage has delivered the list
\* stocks: the list is cached and rendered, the full request, the hide
\* timer and the two loaders are pending.
QuickLoadedPage(stocks) ==
    /\ build = "part_002"
    /\ now = 0
    /\ inits = 1
    /\ mdata = Item(Body(stocks))
    /\ ctime = Item(toString(0))
    /\ allStocks = stocks
    /\ winAllStocks = Defined(stocks)
    /\ isGlobalMode = FALSE
    /\ grid = ProcessedGrid(stocks, FALSE)
    /\ loaderHidden = FALSE
    /\ hideTimers = 1
    /\ runs = <<[NewRun("network", "ok", "part_002")
                    EXCEPT !.full = "inflight"]>>
    /\ newStocks = <<>>
    /\ mergeHist = "none"
    /\ cacheWrittenAt = 0
    /\ quickReceived = Absent
    /\ event = "none"
    /\ portfolio = Absent
    /\ aiInsight = Absent
    /\ opportunities = Absent
    /\ insightReqs = 1
    /\ oppsReqs = 1
    /\ aiText = <<>>
    /\ oppsList = <<>>
    /\ currentSymbol = Absent
    /\ searchResults = NoResults
    /\ exportBtn = "original"
    /\ exportCalls = <<>>
    /\ exportModal = FALSE
    /\ portfolioTab = FALSE
    /\ stockReqs = {}

\* The page of build part_002 once the quick stage has thrown: nothing is
\* cached, window.allStocks was never assigned, the grid shows the error.
QuickFailedPage ==
    /\ build = "part_002"
    /\ now = 0
    /\ inits = 1
    /\ mdata = Absent
    /\ ctime = Absent
    /\ allStocks = <<>>
    /\ winAllStocks = Undefined
    /\ isGlobalMode = FALSE
    /\ grid = ErrorGrid
    /\ loaderHidden = TRUE
    /\ hideTimers = 0
    /\ runs = <<NewRun("network", "failed", "part_002")>>
    /\ newStocks = <<>>
    /\ mergeHist = "none"
    /\ cacheWrittenAt = 0
    /\ quickReceived = Absent
    /\ event = "none"
    /\ portfolio = Absent
    /\ aiInsight = Absent
    /\ opportunities = Absent
    /\ insightReqs = 0
    /\ oppsReqs = 0
    /\ aiText = <<>>
    /\ oppsList = <<>>
    /\ currentSymbol = Absent
    /\ searchResults = NoResults
    /\ exportBtn = "original"
    /\ exportCalls = <<>>
    /\ exportModal = FALSE
    /\ portfolioTab = FALSE
    /\ stockReqs = {}

\* The filter panel in front of a loaded page, values typed in.
InitFilter ==
    /\ \/ \E stocks \in FilterSets : QuickLoadedPage(stocks)
       \/ QuickFailedPage
    /\ filters \in FilterInputs

\* Mutant: the sort of the global list is made on window.allStocks itself.
applyFiltersInPlace ==
    /\ grid' = FilteredGrid(winAllStocks, filters, isGlobalMode)
    /\ winAllStocks' = IF isGlobalMode /\ winAllStocks # Undefined
                       THEN Defined(sort(winAllStocks[1]))
                       ELSE winAllStocks
    /\ quickReceived' = Absent
    /\ event' = "none"
    /\ UNCHANGED <<build, now, inits, mdata, ctime, allStocks,
                   isGlobalMode, loaderHidden, hideTimers, runs, newStocks,
                   mergeHist, cacheWrittenAt, storeVars, loaderVars,
                   pageVars, exportVars, stockReqs>>

\* the Apply button
applyFilters ==
    /\ grid' = FilteredGrid(winAllStocks, filters, isGlobalMode)
    /\ quickReceived' = Absent
    /\ event' = "none"
    /\ UNCHANGED <<build, now, inits, mdata, ctime, allStocks, winAllStocks,
                   isGlobalMode, loaderHidden, hideTimers, runs, newStocks,
                   mergeHist, cacheWrittenAt, storeVars, loaderVars,
                   pageVars, exportVars, stockReqs>>

\* the Clear button: empties the seven inputs, then applyFilters()
clearFilters ==
    /\ filters' = NoFilters
    /\ grid' = FilteredGrid(winAllStocks, NoFilters, isGlobalMode)
    /\ quickReceived' = Absent
    /\ event' = "none"
    /\ UNCHANGED <<build, now, inits, mdata, ctime, allStocks, winAllStocks,
                   isGlobalMode, loaderHidden, hideTimers, runs, newStocks,
                   mergeHist, cacheWrittenAt, storeVars, loaderVars,
                   currentSymbol, searchResults, exportVars, stockReqs>>

\* The region switch is flipped; window.toggleRegion sets the label, calls
\* applyFilters() and empties the search input, whose input listener hides
\* the search results.
toggleRegion ==
    /\ isGlobalMode' = ~isGlobalMode
    /\ grid' = FilteredGrid(winAllStocks, filters, ~isGlobalMode)
    /\ searchResults' = [searchResults EXCEPT !.input = <<>>,
                                              !.hidden = TRUE]
    /\ quickReceived' = Absent
    /\ event' = "none"
    /\ UNCHANGED <<build, now, inits, mdata, ctime, allStocks, winAllStocks,
                   loaderHidden, hideTimers, runs, newStocks, mergeHist,
                   cacheWrittenAt, storeVars, loaderVars, currentSymbol,
                   filters, exportVars, stockReqs>>

\* The full request is answered with a list of stocks that carry the
\* attributes the filter reads.
FullBatchInBackgroundMerges ==
    \E i \in 1..Len(runs), stocks \in FilterSets :
        /\ build = "part_002"
        /\ FullInFlight(i)
        /\ fetchFullBatchInBackground(i, Body(stocks))

----------------------------------------------------------------------------
(* Search (initSearch, src/unnamed/part_002) *)

\* String.prototype.toLowerCase, on the characters that symbols, names and
\* queries are made of.
LowerChar(c) ==
    CASE c = "A" -> "a"
      [] c = "B" -> "b"
      [] c = "G" -> "g"
      [] c = "I" -> "i"
      [] c = "K" -> "k"
      [] c = "N" -> "n"
      [] c = "R" -> "r"
      [] c = "S" -> "s"
      [] c = "X" -> "x"
      [] OTHER -> c

toLowerCase(s) == [k \in 1..Len(s) |-> LowerChar(s[k])]

\* String.prototype.trim
RECURSIVE trim(_)
trim(s) ==
    IF s = <<>> THEN s
    ELSE IF Head(s) = " " THEN trim(Tail(s))
    ELSE IF s[Len(s)] = " " THEN trim(SubSeq(s, 1, Len(s) - 1))
    ELSE s

\* String.prototype.includes
includes(s, q) ==
    \E i \in 0..Len(s) : i + Len(q) <= Len(s) /\ SubSeq(s, i + 1, i + Len(q)) = q

\* A stock as the search reads it, with the attributes the filter reads.
Named(sym, name) ==
    [symbol |-> sym, name |-> name, price |-> Num(1), rsi |-> Num(50),
     change_pct |-> Num(1), volume |-> Num(1)]

SearchRecords ==
    {Named(SymAKBNK, <<"A", "k", "b", "a", "n", "k">>),
     Named(SymGARAN, <<"G", "a", "r", "a", "n", "t", "i">>),
     Named(SymBANKX, <<"B", "a", "n", "k", "X">>),
     Named(SymBBB, <<"B", "b", "b">>)}

\* Working sets the search is run on: each symbol once, the domestic ones
\* first.
SearchSets ==
    {s \in UNION {[1..k -> SearchRecords] : k \in 0..MaxLen} :
        /\ UniqueSymbols(s)
        /\ \A i, j \in 1..Len(s) :
               (i < j /\ IsStockGlobal(s[i])) => IsStockGlobal(s[j])}

\* What the user can type into #search-input.
Queries ==
    {<<>>, <<" ">>, <<"b", "a", "n", "k">>, <<"B", "A", "N", "K">>,
     <<" ", "B", "a", "n", "k", " ">>, <<"a", "k", "b">>, <<"x">>,
     <<"z", "z">>}

\* The mutant of matches: the region test is left out.
matchesAnyRegion(stocks, globalMode, query) ==
    SelectSeq(stocks,
              LAMBDA stock :
                  \/ includes(toLowerCase(stock.symbol), query)
                  \/ includes(toLowerCase(stock.name), query))

\* The input listener: allStocks.filter(...) by region and text
matches(stocks, globalMode, query) ==
    SelectSeq(stocks,
              LAMBDA stock :
                  /\ globalMode = IsStockGlobal(stock)
                  /\ \/ includes(toLowerCase(stock.symbol), query)
                     \/ includes(toLowerCase(stock.name), query))

\* initSearch has run: processData has rendered at least one card.  On a
\* page whose working set stands, that is the load in domestic mode.
SearchAttached == DisplayStocks(allStocks, FALSE) # <<>>

\* The input listener of #search-input, the user having typed value.
search(value) ==
    LET query == trim(toLowerCase(value))
        found == matches(allStocks, isGlobalMode, query)
    IN  /\ searchResults' =
               IF query = <<>>
               THEN [searchResults EXCEPT !.input = value, !.hidden = TRUE]
               ELSE [input |-> value, hidden |-> FALSE, items |-> found,
                     none |-> found = <<>>]
        /\ quickReceived' = Absent
        /\ event' = "none"
        /\ UNCHANGED <<pipelineVars, storeVars, loaderVars, currentSymbol,
                       filters, exportVars, stockReqs>>

Search ==
    /\ SearchAttached
    /\ \E value \in Queries : search(value)

\* A click on a search result: openModal(stock), the results are hidden and
\* the input is emptied.
ResultClick ==
    /\ ~searchResults.hidden
    /\ \E k \in 1..Len(searchResults.items) :
           currentSymbol' = Item(searchResults.items[k].symbol)
    /\ searchResults' = [searchResults EXCEPT !.input = <<>>,
                                              !.hidden = TRUE]
    /\ quickReceived' = Absent
    /\ event' = "none"
    /\ UNCHANGED <<pipelineVars, storeVars, loaderVars, filters, exportVars,
                   stockReqs>>

\* The search box in front of a loaded page.
InitSearch ==
    /\ \E stocks \in SearchSets : QuickLoadedPage(stocks)
    /\ filters = NoFilters

----------------------------------------------------------------------------
(* Export (triggerExport, src/js/api.js) *)

\* A call of triggerExport that has issued its request: originalHTML as it
\* read it, how far it is ("inflight", "done" or "failed" while its timer
\* is pending, "over" once the timer has run), and the time left on the
\* timer.
ExportCall(orig) == [orig |-> orig, phase |-> "inflight", left |-> 0]

\* triggerExport up to its first await: the card and the calls after it.
\* On the portfolio tab with an empty portfolio the card gets originalHTML
\* back and the function returns after the alert.
triggered(btn, calls, tab, raw) ==
    IF tab /\ getPortfolio(raw) = <<>>
    THEN [btn |-> btn, calls |-> calls]
    ELSE [btn |-> "exporting", calls |-> Append(calls, ExportCall(btn))]

\* A click on the export card of the period, in the open export modal.
triggerExport ==
    /\ exportModal
    /\ Len(exportCalls) < MaxCalls
    /\ exportBtn' =
           triggered(exportBtn, exportCalls, portfolioTab, portfolio).btn
    /\ exportCalls' =
           triggered(exportBtn, exportCalls, portfolioTab, portfolio).calls
    /\ quickReceived' = Absent
    /\ event' = "none"
    /\ UNCHANGED <<pipelineVars, storeVars, loaderVars, pageVars,
                   exportModal, portfolioTab, stockReqs>>

\* The response is ok and its blob is read: the file is downloaded, the
\* card shows "Downloaded!" and the 1500 ms timer is set.
exportLoaded(i) ==
    /\ exportCalls[i].phase = "inflight"
    /\ exportBtn' = "done"
    /\ exportCalls' = [exportCalls EXCEPT ![i].phase = "done",
                                          ![i].left = ExportSuccessDelay]
    /\ quickReceived' = Absent
    /\ event' = "none"
    /\ UNCHANGED <<pipelineVars, storeVars, loaderVars, pageVars,
                   exportModal, portfolioTab, stockReqs>>

ExportLoaded == \E i \in 1..Len(exportCalls) : exportLoaded(i)

\* Mutant: the catch block calls triggerExport again.
exportFailedRetry(i) ==
    /\ exportCalls[i].phase = "inflight"
    /\ exportBtn' = "exporting"
    /\ exportCalls' = Append([exportCalls EXCEPT ![i].phase = "over"],
                             ExportCall("failed"))
    /\ quickReceived' = Absent
    /\ event' = "none"
    /\ UNCHANGED <<pipelineVars, storeVars, loaderVars, pageVars,
                   exportModal, portfolioTab, stockReqs>>

\* The fetch is rejected, the response is not ok, or the blob cannot be
\* read: the catch block shows "Failed" and sets the 2000 ms timer.
exportFailed(i) ==
    /\ exportCalls[i].phase = "inflight"
    /\ exportBtn' = "failed"
    /\ exportCalls' = [exportCalls EXCEPT ![i].phase = "failed",
                                          ![i].left = ExportFailureDelay]
    /\ quickReceived' = Absent
    /\ event' = "none"
    /\ UNCHANGED <<pipelineVars, storeVars, loaderVars, pageVars,
                   exportModal, portfolioTab, stockReqs>>

ExportFails == \E i \in 1..Len(exportCalls) : exportFailed(i)

TimerPending(call) == call.phase \in {"done", "failed"}

\* The timer of call i runs: the card gets the call's originalHTML back;
\* after a download the export modal is closed as well.
exportTimer(i) ==
    /\ TimerPending(exportCalls[i])
    /\ exportCalls[i].left = 0
    /\ exportBtn' = exportCalls[i].orig
    /\ exportModal' = IF exportCalls[i].phase = "done" THEN FALSE
                      ELSE exportModal
    /\ exportCalls' = [exportCalls EXCEPT ![i].phase = "over"]
    /\ quickReceived' = Absent
    /\ event' = "none"
    /\ UNCHANGED <<pipelineVars, storeVars, loaderVars, pageVars,
                   portfolioTab, stockReqs>>

ExportTimer == \E i \in 1..Len(exportCalls) : exportTimer(i)

\* ExportTickMs pass on the export timers.  A timer that is due runs before
\* more time passes.  Date.now() is read by the cache code only, no step
\* of which is taken while the export timers are followed; `now` stays.
ExportTick ==
    /\ \E i \in 1..Len(exportCalls) : TimerPending(exportCalls[i])
    /\ \A i \in 1..Len(exportCalls) :
           TimerPending(exportCalls[i]) => exportCalls[i].left > 0
    /\ exportCalls' =
           [i \in 1..Len(exportCalls) |->
               IF TimerPending(exportCalls[i])
               THEN [exportCalls[i] EXCEPT !.left = @ - ExportTickMs]
               ELSE exportCalls[i]]
    /\ quickReceived' = Absent
    /\ event' = "none"
    /\ UNCHANGED <<pipelineVars, storeVars, loaderVars, pageVars, exportBtn,
                   exportModal, portfolioTab, stockReqs>>

\* openExportModal()
openExportModal ==
    /\ exportModal' = TRUE
    /\ quickReceived' = Absent
    /\ event' = "none"
    /\ UNCHANGED <<pipelineVars, storeVars, loaderVars, pageVars, exportBtn,
                   exportCalls, portfolioTab, stockReqs>>

\* window.switchTab(tab): the market view or the portfolio view is shown.
switchTab(tab) ==
    /\ portfolioTab' = (tab # "market")
    /\ quickReceived' = Absent
    /\ event' = "none"
    /\ UNCHANGED <<pipelineVars, storeVars, loaderVars, pageVars, exportBtn,
                   exportCalls, exportModal, stockReqs>>

SwitchTab == \E tab \in {"market", "portfolio"} : switchTab(tab)

\* The export modal in front of a loaded page with one domestic stock.
InitExport ==
    /\ \E stocks \in SearchSets :
           /\ Len(stocks) = 1
           /\ ~IsStockGlobal(stocks[1])
           /\ QuickLoadedPage(stocks)
    /\ filters = NoFilters

----------------------------------------------------------------------------
(* Per-symbol loading (src/unnamed/part_000): init / fetchAndCache /        *)
(* processData / fetchStockData / refreshMarket.  A run is a call of init;  *)
(* its quick field is the state of its fetch(`${API_URL}/stocks`).          *)

\* A parsed /stocks body: an object with the two symbol lists, or one
\* without them.
SymbolLists(stocks, commodities) ==
    [hasLists |-> TRUE, stocks |-> stocks, commodities |-> commodities]

ListBodies ==
    {SymbolLists(s, c) : s \in {<<>>, <<SymAAA>>}, c \in {<<>>, <<SymBBB>>}}
        \cup {[hasLists |-> FALSE, stocks |-> <<>>, commodities |-> <<>>]}

\* processData: allSymbols = [...data.stocks, ...data.commodities]
allSymbols(data) == data.stocks \o data.commodities

\* The call of init that a page load without cache entry makes.
ListRun == [NewRun("network", "inflight", "part_000") EXCEPT !.budget = 0]

\* The page of build part_000 right after its load, nothing cached: the
\* /stocks request is in flight.
InitPerSymbol ==
    /\ build = "part_000"
    /\ now = 0
    /\ inits = 1
    /\ mdata = Absent
    /\ ctime = Absent
    /\ allStocks = <<>>
    /\ winAllStocks = Undefined
    /\ isGlobalMode = FALSE
    /\ grid = BlankGrid
    /\ loaderHidden = FALSE
    /\ hideTimers = 0
    /\ runs = <<ListRun>>
    /\ newStocks = <<>>
    /\ mergeHist = "none"
    /\ cacheWrittenAt = 0
    /\ quickReceived = Absent
    /\ event = "none"
    /\ portfolio = Absent
    /\ aiInsight = Absent
    /\ opportunities = Absent
    /\ insightReqs = 0
    /\ oppsReqs = 0
    /\ aiText = <<>>
    /\ oppsList = <<>>
    /\ currentSymbol = Absent
    /\ filters = NoFilters
    /\ searchResults = NoResults
    /\ exportBtn = "original"
    /\ exportCalls = <<>>
    /\ exportModal = FALSE
    /\ portfolioTab = FALSE
    /\ stockReqs = {}

\* part_000 window.refreshMarket: the cache entry is removed, the loader is
\* shown, init() finds no entry and awaits fetchAndCache().
refreshMarketPerSymbol ==
    /\ inits < MaxInits
    /\ inits' = inits + 1
    /\ mdata' = Absent
    /\ loaderHidden' = FALSE
    /\ runs' = Append(runs, ListRun)
    /\ quickReceived' = Absent
    /\ event' = "refresh"
    /\ UNCHANGED <<build, now, ctime, allStocks, winAllStocks, isGlobalMode,
                   grid, hideTimers, newStocks, mergeHist, cacheWrittenAt,
                   storeVars, loaderVars, pageVars, exportVars, stockReqs>>

\* fetchAndCache with a parsed body: the body is cached, then processData
\* hides the loader, spreads the two lists (a TypeError when the body has
\* none: init's catch block writes the error into the loader), empties
\* the grid and allStocks, calls fetchStockData for every symbol and
\* loadOpportunities(); init goes on with loadAIInsight().
fetchAndCache(i, data) ==
    /\ mdata' = Item(data)
    /\ loaderHidden' = TRUE
    /\ IF data.hasLists
       THEN /\ runs' = [runs EXCEPT ![i].quick = "ok"]
            /\ grid' = BlankGrid
            /\ allStocks' = <<>>
            /\ stockReqs' = stockReqs \cup
                    {[symbol |-> allSymbols(data)[k], run |-> i] :
                        k \in 1..Len(allSymbols(data))}
            /\ oppsReqs' = oppsReqs + 1
            /\ insightReqs' = insightReqs + 1
       ELSE /\ runs' = [runs EXCEPT ![i].quick = "failed"]
            /\ UNCHANGED <<grid, allStocks, stockReqs, oppsReqs,
                           insightReqs>>
    /\ quickReceived' = Absent
    /\ event' = "none"
    /\ UNCHANGED <<build, now, inits, ctime, winAllStocks, isGlobalMode,
                   hideTimers, newStocks, mergeHist, cacheWrittenAt,
                   storeVars, aiText, oppsList, pageVars, exportVars>>

StocksLoaded ==
    \E i \in 1..Len(runs), data \in ListBodies :
        /\ QuickInFlight(i)
        /\ fetchAndCache(i, data)

\* The /stocks fetch is rejected or its body does not parse: init's catch
\* block writes the error into the loader.
StocksFails ==
    \E i \in 1..Len(runs) :
        /\ QuickInFlight(i)
        /\ runs' = [runs EXCEPT ![i].quick = "failed"]
        /\ quickReceived' = Absent
        /\ event' = "none"
        /\ UNCHANGED <<build, now, inits, mdata, ctime, allStocks,
                       winAllStocks, isGlobalMode, grid, loaderHidden,
                       hideTimers, newStocks, mergeHist, cacheWrittenAt,
                       storeVars, loaderVars, pageVars, exportVars,
                       stockReqs>>

\* fetchStockData resolves with the parsed analysis of its symbol: the
\* card is rendered and the stock pushed to allStocks.
stockDataLoaded(req, stock) ==
    /\ stockReqs' = stockReqs \ {req}
    /\ grid' = [grid EXCEPT !.cards = Append(@, stock)]
    /\ allStocks' = Append(allStocks, stock)
    /\ quickReceived' = Absent
    /\ event' = "stockLoaded"
    /\ UNCHANGED <<build, now, inits, mdata, ctime, winAllStocks,
                   isGlobalMode, loaderHidden, hideTimers, runs, newStocks,
                   mergeHist, cacheWrittenAt, storeVars, loaderVars,
                   pageVars, exportVars>>

StockDataLoaded ==
    \E req \in stockReqs : stockDataLoaded(req, Rec(req.symbol, 10))

\* Mutant: a failing fetchStockData rejects, and the rejection is handled
\* like a failure of init.
stockDataFailedThrows(req) ==
    /\ stockReqs' = stockReqs \ {req}
    /\ runs' = [runs EXCEPT ![req.run].quick = "failed"]
    /\ quickReceived' = Absent
    /\ event' = "stockFailed"
    /\ UNCHANGED <<build, now, inits, mdata, ctime, allStocks, winAllStocks,
                   isGlobalMode, grid, loaderHidden, hideTimers, newStocks,
                   mergeHist, cacheWrittenAt, storeVars, loaderVars,
                   pageVars, exportVars>>

\* fetchStockData resolves with null (fetch rejected, response not ok, or
\* unparsable body): the then-callback does nothing.
stockDataFailed(req) ==
    /\ stockReqs' = stockReqs \ {req}
    /\ quickReceived' = Absent
    /\ event' = "stockFailed"
    /\ UNCHANGED <<build, now, inits, mdata, ctime, allStocks, winAllStocks,
                   isGlobalMode, grid, loaderHidden, hideTimers, runs,
                   newStocks, mergeHist, cacheWrittenAt, storeVars,
                   loaderVars, pageVars, exportVars>>

StockDataFails == \E req \in stockReqs : stockDataFailed(req)

----------------------------------------------------------------------------

Next ==
    \/ PageLoad
    \/ refreshMarket
    \/ Tick
    \/ HideLoader
    \/ QuickBatchFails
    \/ QuickBatchTimeout
    \/ QuickBatchLoaded
    \/ QuickBatchLoadedMock
    \/ FullBatchInBackgroundFails
    \/ FullBatchInBackgroundLoaded
    \/ FullBatchFails
    \/ FullBatchLoaded

Spec == Init /\ [][Next]_vars

\* The session keys: page loads, refreshes and quick stages, the loaders'
\* answers, the modal and the portfolio.  The clock stands still and the
\* full requests stay unanswered.
NextSession ==
    \/ PageLoad
    \/ refreshMarket
    \/ HideLoader
    \/ QuickBatchFails
    \/ QuickBatchLoaded
    \/ QuickBatchLoadedMock
    \/ InsightLoaded
    \/ InsightFails
    \/ OppsLoaded
    \/ OppsFails
    \/ OpenModal
    \/ togglePortfolioItem

SpecSession == Init /\ [][NextSession]_vars

\* The filter panel: the Apply and Clear buttons and the region switch, on a
\* page whose working set stands.
NextFilter ==
    \/ applyFilters
    \/ clearFilters
    \/ toggleRegion

SpecFilter == InitFilter /\ [][NextFilter]_vars

\* The filter panel on a page whose full request is answered.
NextMerge ==
    \/ applyFilters
    \/ toggleRegion
    \/ FullBatchInBackgroundMerges

SpecMerge == InitFilter /\ [][NextMerge]_vars

\* The search box: typing, a click on a result and the region switch, on a
\* page whose working set stands.
NextSearch ==
    \/ Search
    \/ ResultClick
    \/ toggleRegion

SpecSearch == InitSearch /\ [][NextSearch]_vars

\* The portfolio: a click on a card, the portfolio button of the modal and
\* the region switch, on a page whose working set stands.
NextPortfolio ==
    \/ OpenModal
    \/ togglePortfolioItem
    \/ toggleRegion

SpecPortfolio == InitSearch /\ [][NextPortfolio]_vars

\* The export: the tabs, the portfolio button, the export modal and its
\* card, the answers to the export requests and the timers.
NextExport ==
    \/ OpenModal
    \/ togglePortfolioItem
    \/ SwitchTab
    \/ openExportModal
    \/ triggerExport
    \/ ExportLoaded
    \/ ExportFails
    \/ ExportTimer
    \/ ExportTick

SpecExport == InitExport /\ [][NextExport]_vars

\* Build part_000: the /stocks request, the per-symbol requests and the
\* refresh button.
NextPerSymbol ==
    \/ refreshMarketPerSymbol
    \/ StocksLoaded
    \/ StocksFails
    \/ StockDataLoaded
    \/ StockDataFails

SpecPerSymbol == InitPerSymbol /\ [][NextPerSymbol]_vars

----------------------------------------------------------------------------
(* Vocabulary of the properties *)

\* The working set that filters, the merge and the portfolio read.
WorkingSet == CurrentStocks(winAllStocks)

SymbolsOf(list) == {list[k].symbol : k \in 1..Len(list)}

\* In this step the full stage of run i ends without success.
FullStageFailsStep(i) ==
    /\ FullInFlight(i)
    /\ inits' = inits
    /\ runs'[i].full \in FullFailed

\* In this step fetchFullBatchInBackground of run i merges a snapshot.
MergeStep(i) ==
    /\ build = "part_002"
    /\ FullInFlight(i)
    /\ inits' = inits
    /\ runs'[i].full = "done"

\* In this step the quick stage of run i ends, with the given results.
QuickSettlesStep(i, results) ==
    /\ QuickInFlight(i)
    /\ inits' = inits
    /\ runs'[i].quick \in results

\* The symbols of a list of records, in the order of the list.
SymbolsOfCards(list) == [k \in 1..Len(list) |-> list[k].symbol]

\* In this step init() is called (page load or refresh).
InitStep == inits' # inits

LastRun(rs) == rs[Len(rs)]

----------------------------------------------------------------------------
(* C1: a failing full stage (rejected, non-success status, unparsable body, *)
(* or a parsed body without a stocks list) leaves the working set, the      *)
(* cached snapshot and its timestamp exactly as they were.                  *)

C1_FullStageNonRegression ==
    [][\A i \in 1..Len(runs) :
          (/\ FullStageFailsStep(i)
           /\ runs[i].quick = "ok"
           /\ WorkingSet # <<>>
           /\ mdata # Absent
           /\ ctime # Absent)
              => /\ winAllStocks' = winAllStocks
                 /\ allStocks' = allStocks
                 /\ mdata' = mdata
                 /\ ctime' = ctime]_vars

(* C2: every symbol appears at most once in window.allStocks, after any     *)
(* sequence of quick-stage loads and full-stage merges of snapshots with    *)
(* unique symbols.                                                          *)

C2_NoDuplication == UniqueSymbols(WorkingSet)

C2_Witness ==
    /\ build = "part_002"
    /\ mergeHist = "merged"
    /\ mdata # Absent
    /\ mdata[1].hasStocks
    /\ Len(mdata[1].stocks) = 2
    /\ Len(newStocks) = 1
    /\ Len(WorkingSet) = 2

(* C3: merging a snapshot A into the result of merging A changes nothing    *)
(* and has an empty delta: the merge operation applied once more to the     *)
(* working set it has just produced returns that working set, and a merge   *)
(* step whose incoming snapshot is the one the previous merge cached        *)
(* leaves window.allStocks and the grid as they are (no card rendered       *)
(* again).                                                                  *)

C3_IdempotentMerge ==
    [][\A i \in 1..Len(runs) :
          MergeStep(i) =>
              LET A == mdata'[1].stocks
                  after == CurrentStocks(winAllStocks')
              IN  /\ MergedStocks(after, A) = after
                  /\ NewStocksOf(after, A) = <<>>
                  /\ (mergeHist # "none" /\ mdata' = mdata)
                        => /\ winAllStocks' = winAllStocks
                           /\ newStocks' = <<>>
                           /\ grid' = grid]_vars

C3_Witness ==
    /\ build = "part_002"
    /\ mergeHist = "remerged"
    /\ newStocks = <<>>
    /\ mdata # Absent
    /\ mdata[1].hasStocks
    /\ mdata[1].stocks # <<>>
    /\ SymbolsOf(mdata[1].stocks) \subseteq SymbolsOf(WorkingSet)
    /\ \A i \in 1..Len(runs) : runs[i].full = "done"

(* C4: a record of the full-stage snapshot whose symbol is already in the   *)
(* working set replaces the existing record at its position, and is not     *)
(* part of the delta.                                                       *)

C4_MergeReplacesInPlace ==
    [][\A i \in 1..Len(runs) :
          MergeStep(i) =>
              LET A == mdata'[1].stocks
                  before == WorkingSet
                  after == CurrentStocks(winAllStocks')
              IN  \A k \in 1..Len(before), j \in 1..Len(A) :
                      A[j].symbol = before[k].symbol
                          => /\ Len(after) >= k
                             /\ after[k] = A[j]
                             /\ \A d \in 1..Len(newStocks') :
                                    newStocks'[d].symbol # A[j].symbol]_vars

(* C5: the delta of a merge is the incoming records whose symbol is not in  *)
(* the existing working set, in arrival order; they are appended after the  *)
(* existing records, whose order does not change.                           *)

C5_MergeDelta ==
    [][\A i \in 1..Len(runs) :
          MergeStep(i) =>
              LET A == mdata'[1].stocks
                  before == WorkingSet
                  after == CurrentStocks(winAllStocks')
                  fresh == SelectSeq(A, LAMBDA r :
                               r.symbol \notin SymbolsOf(before))
              IN  /\ newStocks' = fresh
                  /\ after = before \o fresh
                  /\ SubSeq(after, 1, Len(before)) = before]_vars

C5_Witness ==
    /\ build = "part_002"
    /\ mergeHist = "merged"
    /\ \E i \in 1..Len(runs) : runs[i].full = "done"
    /\ newStocks # <<>>
    /\ Len(WorkingSet) > Len(newStocks)
    /\ SubSeq(WorkingSet, Len(WorkingSet) - Len(newStocks) + 1,
              Len(WorkingSet)) = newStocks

\* A merge whose delta holds two records, in arrival order.
C5_WitnessTwoNew ==
    /\ build = "part_002"
    /\ mergeHist = "merged"
    /\ Len(newStocks) = 2
    /\ WorkingSet = newStocks

(* C6: init uses the cache entry iff the snapshot and the timestamp are     *)
(* both present and less than 300000 ms have passed since the entry was     *)
(* written; at exactly 300000 ms or later, or with a key absent, it runs    *)
(* the network pipeline (the quick request is issued).                      *)

C6_CacheTTLBoundary ==
    [][InitStep =>
          LET run == LastRun(runs')
              usable == /\ mdata' # Absent
                        /\ ctime' # Absent
                        /\ now - cacheWrittenAt < 300000
          IN  /\ (run.path = "cache") <=> usable
              /\ (run.path = "network") <=> ~usable
              /\ (run.path = "network") => run.quick = "inflight"]_vars

\* A page load exactly 300000 ms after the write: the entry is not used.
C6_WitnessAtTTL ==
    /\ inits = 2
    /\ Len(runs) = 1
    /\ mdata # Absent
    /\ ctime # Absent
    /\ now - cacheWrittenAt = 300000
    /\ runs[1].path = "network"
    /\ runs[1].budget = QuickTimeoutMs(build)

\* A page load less than 300000 ms after the write: the entry is used.
C6_WitnessFresh ==
    /\ inits = 2
    /\ Len(runs) = 1
    /\ mdata # Absent
    /\ ctime # Absent
    /\ now - cacheWrittenAt > 0
    /\ now - cacheWrittenAt < 300000
    /\ runs[1].path = "cache"

(* C7: an init that starts with a valid cache entry issues no quick-stage   *)
(* and no full-stage request, ever, and sets the working set to exactly the *)
(* records of the cached snapshot.                                          *)

C7_CacheBypass ==
    /\ [][(InitStep /\ LastRun(runs').path = "cache") =>
             LET cached == mdata[1]
                 records == IF cached.hasStocks THEN cached.stocks ELSE <<>>
             IN  /\ winAllStocks' = Defined(records)
                 /\ allStocks' = records
                 /\ LastRun(runs').quick = "none"
                 /\ LastRun(runs').full = "none"]_vars
    /\ [](\A i \in 1..Len(runs) :
             runs[i].path = "cache"
                 => runs[i].quick = "none" /\ runs[i].full = "none")

C7_Witness ==
    /\ runs # <<>>
    /\ LastRun(runs).path = "cache"
    /\ mdata # Absent
    /\ mdata[1].hasStocks
    /\ Len(mdata[1].stocks) = 2
    /\ WorkingSet = mdata[1].stocks
    /\ allStocks = mdata[1].stocks

(* C8 as stated: once the quick stage of a network-path init has settled,   *)
(* whether it succeeded or threw, a full-stage request has been issued.     *)

C8_FullStageAlwaysStarted ==
    \A i \in 1..Len(runs) :
        (runs[i].path = "network" /\ runs[i].quick # "inflight")
            => runs[i].full # "none"

(* C8 amended: the full-stage request is issued in the task in which the   *)
(* quick stage succeeds, and only then: a run whose quick stage threw never *)
(* has a full-stage request.                                                *)

C8_FullStageAfterQuickSuccess ==
    \A i \in 1..Len(runs) :
        /\ runs[i].quick = "ok" => runs[i].full # "none"
        /\ runs[i].quick # "ok" => runs[i].full = "none"

C8_Witness ==
    \E i, j \in 1..Len(runs) :
        /\ runs[i].quick = "ok"
        /\ runs[i].full = "inflight"
        /\ runs[j].quick \in {"failed", "timeout"}
        /\ runs[j].full = "none"

(* C9: once the time budget of a quick request has elapsed the request can  *)
(* only end by the abort; whenever the quick stage throws, init ends with   *)
(* the error message in the grid and the loader hidden, and that init       *)
(* issues no market-data request afterwards: a new request comes only with  *)
(* a new init (refresh or page load).                                       *)

C9_QuickFailureDegraded ==
    /\ [][\A i \in 1..Len(runs) :
             /\ (QuickSettlesStep(i, QuickFailed \cup {"ok"})
                     /\ runs[i].budget = 0)
                   => runs'[i].quick = "timeout"
             /\ QuickSettlesStep(i, QuickFailed)
                   => /\ grid' = ErrorGrid
                      /\ loaderHidden' = TRUE
                      /\ runs'[i].full = "none"
                      /\ Len(runs') = Len(runs)
                      /\ \A j \in 1..Len(runs) :
                             j # i => runs'[j] = runs[j]
             /\ (runs[i].quick \in QuickFailed /\ inits' = inits)
                   => runs'[i] = runs[i]]_vars
    /\ [](\A i \in 1..Len(runs) :
             runs[i].quick \in QuickFailed => runs[i].full = "none")

C9_WitnessTimeout ==
    /\ runs # <<>>
    /\ LastRun(runs).quick = "timeout"
    /\ LastRun(runs).full = "none"
    /\ grid = ErrorGrid
    /\ loaderHidden
    /\ now >= QuickTimeoutMs(build)

C9_WitnessFailed ==
    /\ runs # <<>>
    /\ LastRun(runs).quick = "failed"
    /\ LastRun(runs).full = "none"
    /\ grid = ErrorGrid
    /\ loaderHidden

(* C10: when the quick request returns a body with a stocks list, the       *)
(* snapshot written to the cache, with the current time as timestamp, and   *)
(* the working set are both exactly the records of that body.               *)

C10_QuickSuccessSnapshot ==
    [][\A i \in 1..Len(runs) :
          (QuickSettlesStep(i, {"ok"}) /\ quickReceived'[1].hasStocks)
              => LET returned == quickReceived'[1].stocks
                 IN  /\ mdata' # Absent
                     /\ mdata'[1].hasStocks
                     /\ mdata'[1].stocks = returned
                     /\ ctime' = Item(toString(now))
                     /\ cacheWrittenAt' = now
                     /\ winAllStocks' = Defined(returned)
                     /\ allStocks' = returned]_vars

(* C11: when the quick stage of the init that refreshMarket started ends,   *)
(* the working set holds nothing but what that quick stage delivered: the   *)
(* records of the snapshot it cached when it succeeded, nothing when it     *)
(* failed.  The step that ends the quick stage directly follows the         *)
(* refresh here, so all that the working set held before it dates from      *)
(* before the refresh.                                                      *)

C11_RefreshDiscardsWorkingSet ==
    [][\A i \in 1..Len(runs) :
          (/\ event = "refresh"
           /\ i = Len(runs)
           /\ QuickSettlesStep(i, QuickFailed \cup {"ok"}))
              => LET delivered == IF runs'[i].quick = "ok"
                                  THEN RecordsOf(StocksOrEmpty(mdata'[1]))
                                  ELSE {}
                 IN  /\ RecordsOf(CurrentStocks(winAllStocks')) \subseteq delivered
                     /\ RecordsOf(allStocks') \subseteq delivered]_vars

(* C13: refreshMarket leaves every full request that is in flight in        *)
(* flight, and when such a request is answered later its snapshot is        *)
(* written over the cached snapshot and timestamp, whatever a newer init    *)
(* has written, and merged into the working set of that moment.             *)

C13_RefreshKeepsFullStage ==
    /\ [][event' = "refresh" =>
             \A i \in 1..Len(runs) :
                 runs[i].full = "inflight"
                     => /\ runs'[i].full = "inflight"
                        /\ runs'[i].outlived]_vars
    /\ [][\A i \in 1..Len(runs) :
             (MergeStep(i) /\ runs[i].outlived)
                 => /\ event' = "stale"
                    /\ mdata' # Absent
                    /\ mdata'[1].hasStocks
                    /\ ctime' = Item(toString(now))
                    /\ CurrentStocks(winAllStocks')
                          = WorkingSet \o NewStocksOf(WorkingSet,
                                                     mdata'[1].stocks)]_vars

\* The full request of the page's first init was in flight at the refresh;
\* the quick stage of the refresh has cached and shown its snapshot
\* (allStocks); then the older request was answered: the cache holds its
\* snapshot and its records were added to the working set.
C13_Witness ==
    /\ build = "part_002"
    /\ event = "stale"
    /\ Len(runs) = 2
    /\ runs[1].full = "done"
    /\ runs[2].quick = "ok"
    /\ runs[2].full = "inflight"
    /\ mdata # Absent
    /\ mdata[1].hasStocks
    /\ mdata[1].stocks # allStocks
    /\ ctime = Item(toString(now))
    /\ newStocks # <<>>
    /\ WorkingSet = allStocks \o newStocks

(* C19: search (allStocks) and the filter and portfolio toggle              *)
(* (window.allStocks) see the same records at every moment.                 *)

C19_SameWorkingSet == RecordsOf(WorkingSet) = RecordsOf(allStocks)

(* C12: right after refreshMarket the snapshot, its timestamp, the insight  *)
(* text and the opportunities list are all absent from sessionStorage, and  *)
(* the portfolio list is as it was.                                         *)

C12_RefreshClearsKeys ==
    [][event' = "refresh" =>
          /\ mdata' = Absent
          /\ ctime' = Absent
          /\ aiInsight' = Absent
          /\ opportunities' = Absent
          /\ portfolio' = portfolio]_vars

----------------------------------------------------------------------------
(* C14: whatever the working set, the region and the seven inputs, a run of *)
(* the filter shows exactly the records of the selected region whose price, *)
(* RSI and change lie in the closed intervals and whose volume is at least  *)
(* the lower bound, where an input that holds a number (0 and negative      *)
(* numbers included) is a bound and an empty or unparsable input is none;   *)
(* with all inputs empty it shows the whole region partition.  Stated for   *)
(* the records that have a volume number.                                   *)
C14_FilterCorrect ==
    [][winAllStocks' # Undefined =>
         LET IsSet(k) == filters'[k].kind = "num"
             AtLeast(a, k) == IsSet(k) => a.v >= filters'[k].v
             AtMost(a, k) == IsSet(k) => a.v <= filters'[k].v
             Within(r) ==
                 /\ AtLeast(r.price, "priceMin") /\ AtMost(r.price, "priceMax")
                 /\ AtLeast(r.rsi, "rsiMin") /\ AtMost(r.rsi, "rsiMax")
                 /\ AtLeast(r.change_pct, "changeMin")
                 /\ AtMost(r.change_pct, "changeMax")
                 /\ AtLeast(r.volume, "volMin")
             numeric == {r \in RecordsOf(winAllStocks'[1]) :
                            r.volume.kind = "num"}
         IN  /\ RecordsOf(grid'.cards) \cap numeric
                    = {r \in numeric :
                          IsStockGlobal(r) = isGlobalMode' /\ Within(r)}
             /\ filters' = NoFilters
                    => RecordsOf(grid'.cards)
                          = RecordsOf(DisplayStocks(winAllStocks'[1],
                                                    isGlobalMode'))]_vars

(* C15: a record without a volume number is not shown by a run of the      *)
(* filter whose volume input holds a positive number, and with a volume     *)
(* input that holds no number it is shown exactly when the same record      *)
(* with a volume would be.                                                  *)
C15_AbsentVolume ==
    [][winAllStocks' # Undefined =>
         \A r \in RecordsOf(winAllStocks'[1]) :
             r.volume.kind # "num" =>
                 /\ (filters'.volMin.kind = "num" /\ filters'.volMin.v > 0)
                        => r \notin RecordsOf(grid'.cards)
                 /\ filters'.volMin.kind # "num"
                        => (r \in RecordsOf(grid'.cards)
                              <=> Filtered(<<[r EXCEPT !.volume = Num(1)]>>,
                                           filters', isGlobalMode') # <<>>)]_vars

(* C16: the cards a run of the filter shows are, in domestic mode, in the   *)
(* order of the working set, and in global mode in ascending order of their *)
(* symbols, each shown record once.                                         *)
C16_SortPolicy ==
    [][winAllStocks' # Undefined =>
         LET cards == grid'.cards
         IN  /\ RecordsOf(cards) \subseteq RecordsOf(winAllStocks'[1])
             /\ Cardinality(RecordsOf(cards)) = Len(cards)
             /\ IF isGlobalMode'
                THEN \A i, j \in 1..Len(cards) :
                        i < j => localeCompare(cards[i].symbol,
                                               cards[j].symbol) < 0
                ELSE cards = SelectSeq(winAllStocks'[1],
                                       LAMBDA r : r \in RecordsOf(cards))]_vars

\* Global mode, the working set lists BBB before BANKX, the filter has run
\* with no bound and shows BANKX before BBB.
C16_Witness ==
    /\ isGlobalMode
    /\ filters = NoFilters
    /\ winAllStocks # Undefined
    /\ SymbolsOfCards(winAllStocks[1]) = <<SymBBB, SymBANKX>>
    /\ SymbolsOfCards(grid.cards) = <<SymBANKX, SymBBB>>

(* C17: no run of applyFilters, clearFilters or toggleRegion changes the    *)
(* working set (window.allStocks and allStocks), in content or in order.    *)
C17_FilterReadOnly ==
    [][winAllStocks' = winAllStocks /\ allStocks' = allStocks]_vars

\* Global mode with a price bound typed in: the filter has run and shows
\* the two global records sorted, the working set still lists them in the
\* order of arrival.
C17_Witness ==
    /\ isGlobalMode
    /\ filters.priceMin = Num(-1)
    /\ filters.volMin = Num(0)
    /\ winAllStocks # Undefined
    /\ winAllStocks[1] = allStocks
    /\ SymbolsOfCards(allStocks) = <<SymBBB, SymBANKX>>
    /\ SymbolsOfCards(grid.cards) = <<SymBANKX, SymBBB>>

----------------------------------------------------------------------------
(* C18: when the user types a query that is not empty once trimmed, the     *)
(* results shown are exactly the records of allStocks whose region is the   *)
(* selected one and whose symbol or name contains the query, letter case    *)
(* set aside, in the order of allStocks; no record of the other region is   *)
(* among them.                                                              *)
C18_SearchAndRegion ==
    [][(/\ searchResults'.input # searchResults.input
        /\ trim(searchResults'.input) # <<>>)
          => LET q == toLowerCase(trim(searchResults'.input))
                 Hit(r) ==
                     /\ IsStockGlobal(r) = isGlobalMode
                     /\ \/ includes(toLowerCase(r.symbol), q)
                        \/ includes(toLowerCase(r.name), q)
             IN  /\ ~searchResults'.hidden
                 /\ searchResults'.items = SelectSeq(allStocks, Hit)
                 /\ \A r \in RecordsOf(searchResults'.items) :
                        IsStockGlobal(r) = isGlobalMode
                 /\ searchResults'.none = (searchResults'.items = <<>>)]_vars

\* AKBNK (domestic) and BANKX (global) in the working set, domestic mode,
\* the query "bank": the only result is AKBNK.
C18_Witness ==
    /\ ~isGlobalMode
    /\ SymbolsOfCards(allStocks) = <<SymAKBNK, SymBANKX>>
    /\ searchResults.input = <<"b", "a", "n", "k">>
    /\ ~searchResults.hidden
    /\ SymbolsOfCards(searchResults.items) = <<SymAKBNK>>

----------------------------------------------------------------------------
(* C20: the portfolio list in sessionStorage holds each symbol at most      *)
(* once, and two calls of togglePortfolioItem in a row on the selected      *)
(* symbol, window.allStocks having a record of it, leave every symbol in    *)
(* the list exactly when it was in it before.                               *)
C20_PortfolioToggle ==
    /\ UniqueSymbols(getPortfolio(portfolio))
    /\ (currentSymbol # Absent /\ findIndex(WorkingSet, currentSymbol[1]) > 0)
          => LET list == getPortfolio(portfolio)
                 once == toggled(list, WorkingSet, currentSymbol[1])
                 twice == toggled(once, WorkingSet, currentSymbol[1])
             IN  /\ (currentSymbol[1] \in SymbolsOf(once))
                        # (currentSymbol[1] \in SymbolsOf(list))
                 /\ SymbolsOf(twice) = SymbolsOf(list)
                 /\ UniqueSymbols(twice)

\* The selected symbol has been toggled into a portfolio that already held
\* another one.
C20_Witness ==
    /\ currentSymbol = Item(SymBANKX)
    /\ SymbolsOfCards(getPortfolio(portfolio)) = <<SymAKBNK, SymBANKX>>
    /\ findIndex(WorkingSet, SymBANKX) > 0

----------------------------------------------------------------------------
(* C21: a call of togglePortfolioItem with a symbol selected removes the    *)
(* symbol from the portfolio when the portfolio has it, whether or not the  *)
(* working set has a record of it; adds it when the portfolio does not have *)
(* it and the working set has a record of it; and changes nothing when      *)
(* neither has it.                                                          *)
C21_ToggleAddsOrRemoves ==
    currentSymbol # Absent
        => LET sym == currentSymbol[1]
               before == getPortfolio(portfolio)
               after == getPortfolio(afterToggle(portfolio, winAllStocks, sym))
           IN  /\ sym \in SymbolsOf(before) => sym \notin SymbolsOf(after)
               /\ (sym \notin SymbolsOf(before)
                     /\ sym \in SymbolsOf(WorkingSet))
                      => /\ sym \in SymbolsOf(after)
                         /\ RecordsOf(after) \subseteq
                                RecordsOf(before) \cup RecordsOf(WorkingSet)
               /\ (sym \notin SymbolsOf(before)
                     /\ sym \notin SymbolsOf(WorkingSet))
                      => after = before

----------------------------------------------------------------------------
(* C22: the step in which an export request fails shows the failure on the  *)
(* card and sets a timer of 2000 ms; when that time has passed, and not     *)
(* before, the card gets back the content it had when the export was        *)
(* triggered (the original content when no other export was under way);     *)
(* no step that settles a request, runs a timer or lets time pass issues a  *)
(* request; and on the portfolio tab with an empty portfolio a call of      *)
(* triggerExport issues no request and leaves the card as it was.           *)
C22_ExportFailure ==
    /\ []((portfolioTab /\ getPortfolio(portfolio) = <<>>)
            => triggered(exportBtn, exportCalls, portfolioTab, portfolio)
                 = [btn |-> exportBtn, calls |-> exportCalls])
    /\ [][\A i \in 1..Len(exportCalls) :
              /\ (exportCalls[i].phase = "inflight"
                    /\ exportCalls'[i].phase = "failed")
                     => /\ exportBtn' = "failed"
                        /\ exportCalls'[i].left = ExportFailureDelay
              /\ (exportCalls[i].phase = "failed"
                    /\ exportCalls'[i].phase = "failed")
                     => /\ exportCalls'[i].left
                              \in {exportCalls[i].left,
                                   exportCalls[i].left - ExportTickMs}
                        /\ exportCalls'[i].left >= 0
              /\ (exportCalls[i].phase = "failed"
                    /\ exportCalls'[i].phase # "failed")
                     => /\ exportCalls[i].left = 0
                        /\ exportCalls'[i].phase = "over"
                        /\ exportBtn' = exportCalls[i].orig
                        /\ Len(exportCalls) = 1 => exportBtn' = "original"
              /\ exportCalls'[i] # exportCalls[i]
                     => Len(exportCalls') = Len(exportCalls)]_vars

\* The only export of the page has failed, its time has passed and the
\* card is back to its original content.
C22_Witness ==
    /\ Len(exportCalls) = 1
    /\ exportCalls[1] = [orig |-> "original", phase |-> "over", left |-> 0]
    /\ exportBtn = "original"
    /\ exportModal

(* C30: once every export request has been answered and every timer has    *)
(* run, the export card shows its original content.                         *)
C30_ExportButtonRecovers ==
    (\A i \in 1..Len(exportCalls) : exportCalls[i].phase = "over")
        => exportBtn = "original"

----------------------------------------------------------------------------
(* C23: the quick request and the full request of one init are never in     *)
(* flight together, and the full request of an init is issued in the step   *)
(* in which its quick request settles, never while it is in flight.         *)
C23_StageOrdering ==
    /\ [](\A i \in 1..Len(runs) :
            ~(runs[i].quick = "inflight" /\ runs[i].full = "inflight"))
    /\ [][\A i \in 1..Len(runs) :
              (i <= Len(runs') /\ runs[i].full = "none"
                 /\ runs'[i].full # "none")
                  => /\ runs[i].quick = "inflight"
                     /\ runs'[i].quick # "inflight"]_vars

\* The full request of the first init is in flight, and so is the quick
\* request of the init that a refresh has started.
C23_Witness ==
    /\ Len(runs) = 2
    /\ runs[1].quick = "ok"
    /\ runs[1].full = "inflight"
    /\ runs[2].quick = "inflight"
    /\ runs[2].full = "none"

----------------------------------------------------------------------------
(* C24: when the grid is what the filter renders for the working set, the   *)
(* selected region and the bounds in the inputs, a full-stage merge leaves  *)
(* it showing the cards that the filter displays for the merged working     *)
(* set under the same region and bounds.                                    *)
C24_MergeThroughFilter ==
    [][\A i \in 1..Len(runs) :
          (/\ MergeStep(i)
           /\ grid = FilteredGrid(winAllStocks, filters, isGlobalMode))
             => RecordsOf(grid'.cards)
                  = RecordsOf(FilteredGrid(winAllStocks', filters,
                                           isGlobalMode).cards)]_vars

----------------------------------------------------------------------------
(* C26: in every state between two tasks in which sessionStorage holds a    *)
(* snapshot, it holds a timestamp as well, and the timestamp is the time of *)
(* the write that stored that snapshot.                                     *)
C26_CacheEntryConsistent ==
    mdata # Absent
        => /\ ctime # Absent
           /\ parseInt(ctime[1]) = cacheWrittenAt
           /\ cacheWrittenAt <= now

\* The full stage has overwritten, at a later time, the entry that the
\* quick stage had written.
C26_Witness ==
    /\ build = "part_002"
    /\ Len(runs) = 1
    /\ runs[1].full = "done"
    /\ mdata # Absent
    /\ now > 0
    /\ ctime = Item(toString(now))

----------------------------------------------------------------------------
(* C28: on a page that was loaded once and never refreshed, a full stage    *)
(* that succeeds leaves every symbol of the working set in the working set. *)
C28_WorkingSetGrows ==
    [][\A i \in 1..Len(runs) :
          (/\ inits = 1
           /\ inits' = 1
           /\ FullInFlight(i)
           /\ runs'[i].full = "done")
             => SymbolsOf(WorkingSet) \subseteq SymbolsOf(WorkingSet')]_vars

----------------------------------------------------------------------------
(* C29: after the full stage of build part_002 has merged a snapshot that   *)
(* lists every symbol of the working set, the working set holds exactly the *)
(* records of the snapshot in sessionStorage, which is what init hands to   *)
(* processData when the page is loaded again while the entry is fresh.      *)
C29_ReloadEquivalence ==
    [][\A i \in 1..Len(runs) :
          (/\ MergeStep(i)
           /\ SymbolsOf(WorkingSet) \subseteq
                  SymbolsOf(StocksOrEmpty(mdata'[1])))
             => /\ CacheFresh(mdata', ctime', now')
                /\ RecordsOf(WorkingSet')
                      = RecordsOf(StocksOrEmpty(mdata'[1]))]_vars

(* C25: in build part_000 a per-symbol request that fails changes neither   *)
(* the working set, nor the grid, nor the outcome of init, nor the loader;  *)
(* a request that succeeds appends exactly its record.  On a page that was  *)
(* never refreshed no symbol is listed twice in the working set and no      *)
(* listed symbol still has a request in flight, so a symbol whose request   *)
(* failed stays absent while the others are shown.                          *)
C25_PerRecordFailure ==
    /\ [](inits = 1 =>
            /\ \A j, k \in 1..Len(allStocks) :
                    allStocks[j].symbol = allStocks[k].symbol => j = k
            /\ \A req \in stockReqs :
                    req.symbol \notin SymbolsOf(allStocks))
    /\ [][/\ (event' = "stockFailed") =>
                (/\ \E req \in stockReqs : stockReqs' = stockReqs \ {req}
                 /\ allStocks' = allStocks
                 /\ grid' = grid
                 /\ runs' = runs
                 /\ loaderHidden' = loaderHidden)
          /\ (event' = "stockLoaded") =>
                (/\ \E req \in stockReqs :
                       /\ stockReqs' = stockReqs \ {req}
                       /\ Len(allStocks') = Len(allStocks) + 1
                       /\ SubSeq(allStocks', 1, Len(allStocks)) = allStocks
                       /\ allStocks'[Len(allStocks')].symbol = req.symbol
                 /\ runs' = runs)]_vars

\* Two symbols were listed, the request of AAA.IS failed last, BBB is the
\* working set, and init ended without error.
C25_Witness ==
    /\ build = "part_000"
    /\ inits = 1
    /\ event = "stockFailed"
    /\ stockReqs = {}
    /\ mdata = Item(SymbolLists(<<SymAAA>>, <<SymBBB>>))
    /\ SymbolsOf(allStocks) = {SymBBB}
    /\ runs[1].quick = "ok"
    /\ loaderHidden

(* C27: in build part_000 the working set never holds two records with the  *)
(* same symbol, whatever refreshes and per-symbol answers interleave.       *)
C27_NoDuplicateSymbols ==
    build = "part_000" =>
        \A j, k \in 1..Len(allStocks) :
            allStocks[j].symbol = allStocks[k].symbol => j = k

====
